---- MODULE Spec2Model ----
(***************************************************************************)
(* QueryGenerator (deeppavlov/models/kbqa/query_generator.py): template    *)
(* dispatch, the fallback chain and the per-template subgraph searches.    *)
(*                                                                         *)
(* A question is resolved by one worker; the engine instance, and with it  *)
(* the field self.template_num, is shared by every worker.  The knowledge  *)
(* graph, the entity linker, the relation ranker, the template matcher and *)
(* the text extractors are collaborators: the graph is a finite set of     *)
(* typed edges, the others are small lookup tables.                        *)
(***************************************************************************)
EXTENDS Integers, Sequences, FiniteSets, TLC

\* ------------------------------------------------------------------ bounds
\* workers sharing one engine instance
NumWorkers == 2

\* the engine as configured: QueryGenerator(entities_to_leave=1,
\* rels_to_leave=2, rels_to_leave_2hop=1); the defaults are 5, 10 and 7
entities_to_leave == 1
rels_to_leave == 2
rels_to_leave_2hop == 1

\* --------------------------------------------------------------- constants
\* entity_id[:15] in get_entity_ids
LinkerCap == 15
\* len(objects_mid) < 15 in two_hop_one_ent
MidCap == 15

\* ------------------------------------------------------------- sequences
NONE == "None"
NoFilter == <<>>

Take(s, n) == IF Len(s) <= n THEN s ELSE SubSeq(s, 1, n)
ButLast(s) == IF Len(s) = 0 THEN s ELSE SubSeq(s, 1, Len(s) - 1)
Last(s) == s[Len(s)]
Range(s) == {s[i] : i \in 1..Len(s)}

\* for x in seq: acc = op(acc, x)
\* body(v), with v evaluated once
Bind(v, body(_)) == CHOOSE y \in {body(x) : x \in {v}} : TRUE

FoldLeft(op(_, _), base, seq) ==
    Bind(seq, LAMBDA s :
        LET iter[i \in 0..Len(s)] ==
                IF i = 0 THEN base ELSE Bind(iter[i - 1], LAMBDA a : op(a, s[i]))
        IN  iter[Len(s)])

\* the loop stops changing anything once the body returned or raised
Live(acc) == ~acc.ret /\ acc.err = "none"
ForEach(body(_, _), base, seq) ==
    FoldLeft(LAMBDA acc, x : IF Live(acc) THEN body(acc, x) ELSE acc, base, seq)

Concat(ss) == FoldLeft(LAMBDA acc, s : acc \o s, <<>>, ss)

\* t occurs in s as a contiguous run (Python's `t in s` on strings)
Contains(s, t) ==
    \E i \in 0..(Len(s) - Len(t)) : \A j \in 1..Len(t) : s[i + j] = t[j]

\* ------------------------------------------------------ names of the graph
\* a fixed listing order of every identifier a collaborator may return
NameOrder == << "P1", "P2", "P3", "P31",
                "E1", "E1b", "E2", "E3", "A", "B", "C", "S1", "T",
                "L1", "L2", "L12", "Lnq", "Lnan", "Y2001", "Y2005", "N5" >>

\* the elements of S as a list, in listing order (or reversed)
SortSet(S) == SelectSeq(NameOrder, LAMBDA n : n \in S)
Reverse(s) == [i \in 1..Len(s) |-> s[Len(s) + 1 - i]]

\* the string a node stands for, one token per character group
LitText(n) ==
    CASE n = "L1"    -> << "q", "1", "q", "^^decimal" >>
      [] n = "L2"    -> << "q", "2", "q", "^^decimal" >>
      [] n = "L12"   -> << "q", "1", "2", "q", "^^decimal" >>
      [] n = "Lnq"   -> << "7", "^^decimal" >>
      [] n = "Lnan"  -> << "q", "x", "q", "^^decimal" >>
      [] n = "Y2001" -> << "q", "2", "0", "0", "1", "q", "^^dateTime" >>
      [] n = "Y2005" -> << "q", "2", "0", "0", "5", "q", "^^dateTime" >>
      [] n = "N5"    -> << "q", "5", "q", "^^decimal" >>
      [] OTHER       -> << n >>

DecimalType == << "^^decimal" >>

\* ------------------------------------------------------------ wiki_parser
Edge(s, r, o, k) == [s |-> s, r |-> r, o |-> o, k |-> k]
D(s, r, o) == Edge(s, r, o, "direct")
St(s, r, o) == Edge(s, r, o, "statement")
Q(s, r, o) == Edge(s, r, o, "qualifier")

Near(e, dir) == IF dir = "forw" THEN e.s ELSE e.o
Far(e, dir) == IF dir = "forw" THEN e.o ELSE e.s

Matching(kg, dir, subj, rel, obj, kind, filt) ==
    {e \in kg : /\ Near(e, dir) = subj
                /\ rel = NONE \/ e.r = rel
                /\ obj = NONE \/ Far(e, dir) = obj
                /\ kind = NONE \/ e.k = kind
                /\ filt = NoFilter \/ Contains(LitText(Far(e, dir)), filt)}

\* wiki_parser(mode, direction, subject, rel, obj, type_of_rel, filter_obj):
\* an empty sequence on no match, never a fault
WP(kg, mode, dir, subj, rel, obj, kind, filt) ==
    LET M == Matching(kg, dir, subj, rel, obj, kind, filt)
    IN  CASE mode = "rels"    -> SortSet({e.r : e \in M})
          [] mode = "objects" -> SortSet({Far(e, dir) : e \in M})
          [] OTHER            ->
               Concat([i \in 1..Len(SortSet({e.r : e \in M})) |->
                   LET r == SortSet({e.r : e \in M})[i]
                       os == SortSet({e.o : e \in {x \in M : x.r = r}})
                   IN  [j \in 1..Len(os) |-> << subj, r, os[j] >>]])

\* ------------------------------------------------------------ collaborators
\* EntityLinker(mention): the ranked entity ids of a mention
Linker(m) ==
    CASE m = "m1" -> << "E1", "E1b" >>
      [] m = "m2" -> << "E2" >>
      [] OTHER    -> << "E3" >>

\* relevance order of the relation ranker
RankOrder == << "P2", "P1", "P3", "P31" >>

\* rel_ranker.rank_rels(question, rels): (relation, score), best first
rank_rels(rels) ==
    LET top == SelectSeq(RankOrder, LAMBDA r : r \in Range(rels))
    IN  [i \in 1..Len(top) |-> << top[i], Len(top) - i >>]

\* [score[0] for score in scores]
TopRels(scores) == [i \in 1..Len(scores) |-> scores[i][1]]

\* rank_rels_filename_1 / rank_rels_filename_2, read by load()
rank_list_0 == << "P1", "P2", "P3" >>
rank_list_1 == << "P1", "P2", "P3" >>

\* utils.make_entity_combs: the Cartesian product, first list slowest
RECURSIVE make_entity_combs(_)
make_entity_combs(entity_ids) ==
    IF Len(entity_ids) = 0 THEN << <<>> >>
    ELSE LET rest == make_entity_combs(Tail(entity_ids))
             head == Head(entity_ids)
         IN  Concat([i \in 1..Len(head) |->
                        [j \in 1..Len(rest) |-> << head[i] >> \o rest[j]]])

\* list(set(xs)): the distinct elements, in an order the hash seed decides
ListSet(xs, rev) ==
    IF rev THEN Reverse(SortSet(Range(xs))) ELSE SortSet(Range(xs))

\* ------------------------------------------------------- search bookkeeping
\* what a search has so far: its candidate list, the fault it raised, whether
\* it returned, the (mode, subject, relation) of every wiki_parser call, the
\* relation lists it may traverse with their caps, and one loop-carried local
Fresh == [out |-> <<>>, err |-> "none", ret |-> FALSE, calls |-> {},
          ranked |-> {}, tmp |-> <<>>]
\* a relation list obtained for traversal and the cap the caller applies to it
Ranked(acc, rels, cap) ==
    [acc EXCEPT !.ranked = @ \cup {[rels |-> rels, cap |-> cap]}]
Note(acc, mode, subj, rel) ==
    [acc EXCEPT !.calls = @ \cup {<< mode, subj, rel >>}]
Emit(acc, c) == [acc EXCEPT !.out = Append(@, c)]
EmitAll(acc, cs) == [acc EXCEPT !.out = @ \o cs]
Raise(acc, e) == [acc EXCEPT !.err = e]
Return(acc) == [acc EXCEPT !.ret = TRUE]
\* a callee's result taken over by its caller
Done(acc) == [acc EXCEPT !.ret = FALSE, !.tmp = <<>>]

\* ---------------------------------------------------------- literal parsing
DigitVal(c) ==
    CASE c = "0" -> 0 [] c = "1" -> 1 [] c = "2" -> 2 [] c = "3" -> 3
      [] c = "4" -> 4 [] c = "5" -> 5 [] c = "6" -> 6 [] c = "7" -> 7
      [] c = "8" -> 8 [] c = "9" -> 9 [] OTHER -> -1

FirstQuote(s) ==
    IF \E i \in 1..Len(s) : s[i] = "q"
    THEN CHOOSE i \in 1..Len(s) : s[i] = "q" /\ \A j \in 1..(i - 1) : s[j] # "q"
    ELSE 0

\* re.search(r'["]([^"]*)["]*', s): None without a quote, else group(1)
ReSearch(s) ==
    LET p == FirstQuote(s)
        rest == SubSeq(s, p + 1, Len(s))
        e == FirstQuote(rest)
    IN  IF p = 0 THEN [found |-> FALSE, group |-> <<>>]
        ELSE [found |-> TRUE,
              group |-> IF e = 0 THEN rest ELSE SubSeq(rest, 1, e - 1)]

\* float(s) of a digit string; ok is FALSE where float raises ValueError
Float(s) ==
    IF Len(s) = 0 \/ \E i \in 1..Len(s) : DigitVal(s[i]) < 0
    THEN [ok |-> FALSE, val |-> 0]
    ELSE [ok |-> TRUE,
          val |-> FoldLeft(LAMBDA v, c : 10 * v + DigitVal(c), 0, s)]

\* number = re.search(...).group(1); float(number)
ParseNumber(s) ==
    LET m == ReSearch(s)
    IN  IF ~m.found THEN [err |-> "AttributeError", val |-> 0]
        ELSE IF ~Float(m.group).ok THEN [err |-> "ValueError", val |-> 0]
        ELSE [err |-> "none", val |-> Float(m.group).val]

\* sorted(xs, key=lambda x: x[k], reverse=reverse): stable either way
Sorted(xs, k, reverse) ==
    LET Before(a, b) == IF reverse THEN a[k] > b[k] ELSE a[k] < b[k]
        Insert(acc, x) ==
            LET n == Cardinality({i \in 1..Len(acc) : ~Before(x, acc[i])})
            IN  SubSeq(acc, 1, n) \o << x >> \o SubSeq(acc, n + 1, Len(acc))
    IN  FoldLeft(Insert, <<>>, xs)

\* str(n)
RECURSIVE Str(_)
Str(n) ==
    LET d == SubSeq(<< "0", "1", "2", "3", "4", "5", "6", "7", "8", "9" >>,
                    (n % 10) + 1, (n % 10) + 1)
    IN  IF n < 10 THEN d ELSE Str(n \div 10) \o d

\* rels_from_template: None, or one tuple (relation, ..., direction) per slot
NoRels == [given |-> FALSE, slots |-> <<>>]
Rels(slots) == [given |-> TRUE, slots |-> slots]

\* ------------------------------------------------- max/min, templates 5, 6
\* lines 416-418 and 440-442: the first object parsed, the candidate appended
Parsed(acc, objects, cand) ==
    Bind(objects, LAMBDA os :
        IF Len(os) > 0
        THEN Bind(ParseNumber(LitText(os[1])), LAMBDA n :
                IF n.err # "none" THEN Raise(acc, n.err)
                ELSE Emit(acc, Append(cand, n.val)))
        ELSE acc)

\* lines 420-421 and 444-445
ReturnIfAny(acc) == IF Live(acc) /\ Len(acc.out) > 0 THEN Return(acc) ELSE acc

find_relevant_subgraph_maxmin_one(kg, a0, entities_list, rels) ==
    Done(ForEach(LAMBDA a1, entity :
        LET objects_1 == WP(kg, "objects", "backw", entity, "P31", NONE, "direct", NoFilter)
        IN  ForEach(LAMBDA a2, rel :
                Bind(ForEach(LAMBDA a4, obj :
                        LET objects_2 == WP(kg, "objects", "forw", obj, rel, NONE,
                                            "direct", DecimalType)
                            a5 == Note(a4, "objects", obj, rel)
                        IN  Parsed(a5, objects_2, << rel, obj >>),
                        [a2 EXCEPT !.out = <<>>], objects_1),
                     ReturnIfAny),
                Note(a1, "objects", entity, "P31"), rels),
        [a0 EXCEPT !.out = <<>>], entities_list))

\* variant: every projected output is kept
AllOf(xs, n) == [i \in 1..Len(xs) |-> SubSeq(xs[i], 1, n)]

\* [(output[0], ..., output[n-1]) for output in xs], then [xs[0]] if any
FirstOf(xs, n) ==
    Bind(xs, LAMBDA s : IF Len(s) > 0 THEN << SubSeq(s[1], 1, n) >> ELSE <<>>)

\* lines 276-283: the relations chosen, then the search over them
MaxminOneCandidates(kg, a0, entities_list, rels_from_template) ==
    IF rels_from_template.given
    THEN IF Len(rels_from_template.slots) < 1 THEN Raise(a0, "IndexError")
         ELSE find_relevant_subgraph_maxmin_one(kg, a0, entities_list,
                  ButLast(rels_from_template.slots[1]))
    ELSE find_relevant_subgraph_maxmin_one(kg,
             Ranked(a0, TopRels(rank_rels(rank_list_0)), rels_to_leave),
             entities_list, TopRels(rank_rels(rank_list_0)))

\* lines 284-286: reverse = True, and False for an ascending question
MaxminOneReverse(ascending) == IF ascending THEN FALSE ELSE TRUE

maxmin_one_entity_solver(kg, a0, entities_list, rels_from_template, ascending) ==
    Bind(MaxminOneCandidates(kg, a0, entities_list, rels_from_template),
         LAMBDA a1 : IF a1.err # "none" THEN a1
                     ELSE [a1 EXCEPT !.out =
                              FirstOf(Sorted(a1.out, 3, MaxminOneReverse(ascending)), 2)])

find_relevant_subgraph_maxmin_two(kg, a0, ent_combs, rels_1, rels_2) ==
    Done(ForEach(LAMBDA a1, ent_comb :
        LET objects_1 == WP(kg, "objects", "backw", ent_comb[1], "P31", NONE,
                            "direct", NoFilter)
        IN  ForEach(LAMBDA a2, rel_1 :
                LET objects_2 == WP(kg, "objects", "backw", ent_comb[2], rel_1, NONE,
                                    "direct", NoFilter)
                    objects_intersect == SortSet(Range(objects_1) \cap Range(objects_2))
                IN  ForEach(LAMBDA a3, rel_2 :
                        Bind(ForEach(LAMBDA a5, obj :
                                LET objects_3 == WP(kg, "objects", "forw", obj, rel_2, NONE,
                                                    "direct", DecimalType)
                                    a6 == Note(a5, "objects", obj, rel_2)
                                IN  Parsed(a6, objects_3, << rel_1, rel_2, obj >>),
                                [a3 EXCEPT !.out = <<>>], objects_intersect),
                             ReturnIfAny),
                        Note(a2, "objects", ent_comb[2], rel_1), rels_2),
                Note(a1, "objects", ent_comb[1], "P31"), rels_1),
        [a0 EXCEPT !.out = <<>>], ent_combs))

\* lines 300-312: the backward vocabulary of every linked entity, ranked
MaxminTwoVocabulary(kg, a0, entity_ids, rev) ==
    LET a1 == ForEach(LAMBDA a2, entities_list :
                ForEach(LAMBDA a3, entity :
                    [Note(a3, "rels", entity, NONE) EXCEPT !.tmp =
                        @ \o WP(kg, "rels", "backw", entity, NONE, NONE, "direct", NoFilter)],
                    a2, entities_list),
                [a0 EXCEPT !.tmp = <<>>], entity_ids)
    IN  Bind(TopRels(rank_rels(ListSet(a1.tmp, rev))), LAMBDA top_rels_1 :
            Ranked(Ranked([a1 EXCEPT !.tmp = top_rels_1], top_rels_1, rels_to_leave),
                   TopRels(rank_rels(rank_list_1)), rels_to_leave))

\* lines 296-317: the two relation lists chosen, then the search over them
MaxminTwoCandidates(kg, a0, entity_ids, rels_from_template, rev) ==
    LET given == rels_from_template.given
        top_rels_2 == IF given THEN ButLast(rels_from_template.slots[2])
                      ELSE TopRels(rank_rels(rank_list_1))
    IN  IF given /\ Len(rels_from_template.slots) < 2 THEN Raise(a0, "IndexError")
        ELSE Bind(IF given THEN [a0 EXCEPT !.tmp = ButLast(rels_from_template.slots[1])]
                  ELSE MaxminTwoVocabulary(kg, a0, entity_ids, rev),
             LAMBDA a1 :
                IF Len(entity_ids) > 1
                THEN find_relevant_subgraph_maxmin_two(kg, Done(a1),
                         make_entity_combs(entity_ids),
                         Take(a1.tmp, rels_to_leave), Take(top_rels_2, rels_to_leave))
                ELSE [Done(a1) EXCEPT !.out = <<>>])

\* lines 319-321: reverse = False, and True for an ascending question
MaxminTwoReverse(ascending) == IF ascending THEN TRUE ELSE FALSE

maxmin_two_entities_solver(kg, a0, entity_ids, rels_from_template, ascending, rev) ==
    Bind(MaxminTwoCandidates(kg, a0, entity_ids, rels_from_template, rev),
         LAMBDA a2 : IF a2.err # "none" THEN a2
                     ELSE [a2 EXCEPT !.out =
                              FirstOf(Sorted(a2.out, 4, MaxminTwoReverse(ascending)), 3)])

\* ------------------------------------------------------- count, template 4
\* lines 251-260: forward and backward vocabulary of every mention, ranked
CountVocabulary(kg, a0, entity_ids, rev) ==
    LET a1 == ForEach(LAMBDA a2, entity_id :
                ForEach(LAMBDA a3, entity :
                    [Note(a3, "rels", entity, NONE) EXCEPT !.tmp =
                        @ \o WP(kg, "rels", "forw", entity, NONE, NONE, "direct", NoFilter)
                          \o WP(kg, "rels", "backw", entity, NONE, NONE, "direct", NoFilter)],
                    a2, Take(entity_id, entities_to_leave)),
                [a0 EXCEPT !.tmp = <<>>], entity_ids)
    IN  Bind(TopRels(rank_rels(ListSet(a1.tmp, rev))), LAMBDA top_rels :
            Ranked([a1 EXCEPT !.tmp = top_rels], top_rels, rels_to_leave))

questions_with_count_solver(kg, a0, entity_ids, rels_from_template, rev) ==
    LET given == rels_from_template.given
        directions == IF given THEN << Last(rels_from_template.slots[1]) >>
                      ELSE << "forw", "backw" >>
    IN  IF given /\ Len(rels_from_template.slots) < 1 THEN Raise(a0, "IndexError")
        ELSE
        Bind(IF given THEN [a0 EXCEPT !.tmp = ButLast(rels_from_template.slots[1])]
             ELSE CountVocabulary(kg, a0, entity_ids, rev),
        LAMBDA a1 :
        Done(ForEach(LAMBDA a2, entity_id :
            ForEach(LAMBDA a3, entity :
                \* answers = []
                ForEach(LAMBDA a4, rel :
                    ForEach(LAMBDA a5, direction :
                        Bind(a5.tmp \o WP(kg, "objects", direction, entity, rel,
                                          NONE, "direct", NoFilter),
                        LAMBDA answers :
                            LET a6 == [Note(a5, "objects", entity, rel) EXCEPT
                                          !.tmp = answers]
                            IN  IF Len(answers) > 0
                                THEN Emit(a6, << rel, Str(Len(answers)) >>)
                                ELSE a6),
                        a4, directions),
                    [a3 EXCEPT !.tmp = <<>>], Take(a1.tmp, rels_to_leave)),
                a2, Take(entity_id, entities_to_leave)),
            [Done(a1) EXCEPT !.out = <<>>], entity_ids)))

\* ------------------------------------- numeric / qualifier, templates 0 - 3
\* what extract_year / extract_number found in the question
Year == << "2", "0", "0", "1" >>
Number == << "5" >>
\* variant: the qualifier literal is not compared with the extracted value
AnyFilter(num) == NoFilter
NumFilter(num) == IF num = "year" THEN Year ELSE Number

\* lines 194-199 and 230-235: the forward vocabulary of the first mention
ForwardVocabulary(kg, a0, entity_ids) ==
    ForEach(LAMBDA a1, entity :
        [Note(a1, "rels", entity, NONE) EXCEPT !.tmp =
            @ \o WP(kg, "rels", "forw", entity, NONE, NONE, "direct", NoFilter)],
        [a0 EXCEPT !.tmp = <<>>], Take(entity_ids[1], entities_to_leave))

\* every (x, y) pair of two lists as (rel, x, y), x slowest
Pairs(rel, xs, ys) ==
    Concat([i \in 1..Len(xs) |-> [j \in 1..Len(ys) |-> << rel, xs[i], ys[j] >>]])

find_relevant_subgraph_cqwn(kg, a0, entities_list, rels, num, template_num) ==
    Done(ForEach(LAMBDA a1, entity :
        ForEach(LAMBDA a2, rel :
            LET objects_1 == WP(kg, "objects", "forw", entity, rel, NONE, NONE, NoFilter)
            IN  ForEach(LAMBDA a3, obj :
                    LET answers == WP(kg, "objects", "forw", obj, rel, NONE,
                                      "statement", NoFilter)
                        second_rels_0 == WP(kg, "rels", "forw", obj, NONE, NONE,
                                            "qualifier", num)
                        answer_triplets == WP(kg, "triplets", "forw", obj, NONE, NONE,
                                              "qualifier", NoFilter)
                        second_rels_1 == WP(kg, "rels", "forw", obj, rel, NONE,
                                            "statement", num)
                    IN  IF template_num = 0
                        THEN LET a4 == Note(Note(a3, "objects", obj, rel), "rels", obj, NONE)
                             IN  IF Len(second_rels_0) > 0 /\ Len(answers) > 0
                                 THEN EmitAll(a4, Pairs(rel, second_rels_0, answers))
                                 ELSE a4
                        ELSE IF template_num = 1
                        THEN LET a4 == Note(Note(a3, "triplets", obj, NONE), "rels", obj, rel)
                             IN  IF Len(second_rels_1) > 0 /\ Len(answer_triplets) > 0
                                 THEN EmitAll(a4, [i \in 1..Len(answer_triplets) |->
                                        << rel, answer_triplets[i][2], answer_triplets[i][3] >>])
                                 ELSE a4
                        ELSE a3,
                    Note(a2, "objects", entity, rel), objects_1),
            a1, rels),
        [a0 EXCEPT !.out = <<>>], entities_list))

complex_question_with_number_solver(kg, a0, entity_ids, rels_from_template, num, template_num, rev) ==
    LET given == rels_from_template.given
        entities_list == Take(entity_ids[1], entities_to_leave)
    IN  IF given /\ Len(rels_from_template.slots) < 1 THEN Raise(a0, "IndexError")
        ELSE Bind(IF given THEN a0 ELSE ForwardVocabulary(kg, a0, entity_ids),
        LAMBDA a1 :
            IF num = "none" THEN [Done(a1) EXCEPT !.out = <<>>]
            ELSE
            Bind(ListSet(a1.tmp, rev), LAMBDA ex_rels :
            Bind(IF given THEN ButLast(rels_from_template.slots[1])
                 ELSE TopRels(rank_rels(ex_rels)), LAMBDA top_rels :
            Bind(find_relevant_subgraph_cqwn(kg,
                     IF given THEN Done(a1) ELSE Ranked(Done(a1), top_rels, rels_to_leave),
                     entities_list,
                     Take(top_rels, rels_to_leave), NumFilter(num), template_num),
            LAMBDA first :
                IF Len(first.out) > 0 THEN first
                ELSE IF given THEN Raise(first, "UnboundLocalError")
                ELSE find_relevant_subgraph_cqwn(kg,
                         Ranked(first, ex_rels, Len(ex_rels)), entities_list,
                         ex_rels, NumFilter(num), template_num)))))

find_relevant_subgraph_cqwq(kg, a0, ent_combs, rels, template_num) ==
    Done(ForEach(LAMBDA a1, ent_comb :
        ForEach(LAMBDA a2, rel :
            LET objects_1 == WP(kg, "objects", "forw", ent_comb[1], rel, NONE, NONE, NoFilter)
            IN  ForEach(LAMBDA a3, obj :
                    LET answer_triplets == WP(kg, "triplets", "forw", obj, NONE, NONE,
                                              "qualifier", NoFilter)
                        second_rels_2 == WP(kg, "rels", "backw", ent_comb[2], rel, obj,
                                            "statement", NoFilter)
                        answers == WP(kg, "objects", "forw", obj, rel, NONE,
                                      "statement", NoFilter)
                        second_rels_3 == WP(kg, "rels", "backw", ent_comb[2], NONE, obj,
                                            "qualifier", NoFilter)
                    IN  IF template_num = 2
                        THEN LET a4 == Note(Note(a3, "triplets", obj, NONE),
                                            "rels", ent_comb[2], rel)
                             IN  IF Len(second_rels_2) > 0 /\ Len(answer_triplets) > 0
                                 THEN EmitAll(a4, [i \in 1..Len(answer_triplets) |->
                                        << rel, answer_triplets[i][2], answer_triplets[i][3] >>])
                                 ELSE a4
                        ELSE IF template_num = 3
                        THEN LET a4 == Note(Note(a3, "objects", obj, rel),
                                            "rels", ent_comb[2], NONE)
                             IN  IF Len(second_rels_3) > 0 /\ Len(answers) > 0
                                 THEN EmitAll(a4, Pairs(rel, second_rels_3, answers))
                                 ELSE a4
                        ELSE a3,
                    Note(a2, "objects", ent_comb[1], rel), objects_1),
            a1, rels),
        [a0 EXCEPT !.out = <<>>], ent_combs))

complex_question_with_qualifier_solver(kg, a0, entity_ids, rels_from_template, template_num, rev) ==
    LET given == rels_from_template.given
    IN  IF given /\ Len(rels_from_template.slots) < 1 THEN Raise(a0, "IndexError")
        ELSE Bind(IF given THEN a0 ELSE ForwardVocabulary(kg, a0, entity_ids),
        LAMBDA a1 :
            IF Len(entity_ids) > 1
            THEN Bind(IF given THEN ButLast(rels_from_template.slots[1])
                      ELSE TopRels(rank_rels(ListSet(a1.tmp, rev))),
                 LAMBDA top_rels :
                    find_relevant_subgraph_cqwq(kg,
                        IF given THEN Done(a1) ELSE Ranked(Done(a1), top_rels, rels_to_leave),
                        make_entity_combs(entity_ids),
                        Take(top_rels, rels_to_leave), template_num))
            ELSE [Done(a1) EXCEPT !.out = <<>>])

\* ------------------------------------------- generic two-hop, template 7
\* objects reached from subj by rel, forward then backward (lines 525-526)
BothWays(kg, subj, rel) ==
    WP(kg, "objects", "forw", subj, rel, NONE, "direct", NoFilter)
        \o WP(kg, "objects", "backw", subj, rel, NONE, "direct", NoFilter)

from_template_one_ent(kg, a0, entity_ids, rels_from_template) ==
    LET slots == rels_from_template.slots
        one == ForEach(LAMBDA a1, entity :
                 ForEach(LAMBDA a2, relation :
                    LET objects == WP(kg, "objects", Last(slots[1]), entity, relation,
                                      NONE, "direct", NoFilter)
                        a3 == Note(a2, "objects", entity, relation)
                    IN  IF Len(objects) > 0
                        THEN Return(Emit(a3, << relation, objects[1] >>))
                        ELSE a3,
                    a1, ButLast(slots[1])),
                 [a0 EXCEPT !.out = <<>>], entity_ids[1])
        two == ForEach(LAMBDA a1, entity :
                 ForEach(LAMBDA a2, relation_1 :
                    LET objects_1 == WP(kg, "objects", Last(slots[1]), entity, relation_1,
                                        NONE, "direct", NoFilter)
                    IN  ForEach(LAMBDA a3, object_1 :
                            ForEach(LAMBDA a4, relation_2 :
                                LET objects_2 == WP(kg, "objects", Last(slots[2]), object_1,
                                                    relation_2, NONE, "direct", NoFilter)
                                    a5 == Note(a4, "objects", object_1, relation_2)
                                IN  IF Len(objects_2) > 0
                                    THEN Return(Emit(a5,
                                            << relation_1, relation_2, objects_2[1] >>))
                                    ELSE a5,
                                a3, ButLast(slots[2])),
                            Note(a2, "objects", entity, relation_1), objects_1),
                    a1, ButLast(slots[1])),
                 [a0 EXCEPT !.out = <<>>], entity_ids[1])
    IN  IF Len(slots) = 1 THEN Done(one)
        ELSE IF Len(slots) = 2 THEN Done(two)
        ELSE [a0 EXCEPT !.out = <<>>]

from_template_two_ent(kg, a0, ent_combs, rels_from_template) ==
    LET slots == rels_from_template.slots
        one == ForEach(LAMBDA a1, ent_comb :
                 ForEach(LAMBDA a2, relation :
                    LET objects_1 == WP(kg, "objects", Last(slots[1]), ent_comb[2], relation,
                                        NONE, "direct", NoFilter)
                    IN  ForEach(LAMBDA a3, object_1 :
                            LET objects_2 == WP(kg, "objects", Last(slots[1]), object_1,
                                                "P31", ent_comb[1], "direct", NoFilter)
                                a4 == Note(a3, "objects", object_1, "P31")
                            IN  IF Len(objects_2) > 0
                                THEN Return(Emit(a4, << relation, objects_2[1] >>))
                                ELSE a4,
                            Note(a2, "objects", ent_comb[2], relation), objects_1),
                    a1, ButLast(slots[1])),
                 [a0 EXCEPT !.out = <<>>], ent_combs)
        two == ForEach(LAMBDA a1, ent_comb :
                 ForEach(LAMBDA a2, relation_1 :
                    ForEach(LAMBDA a3, relation_2 :
                        LET objects_1 == WP(kg, "objects", Last(slots[1]), ent_comb[1],
                                            relation_1, NONE, "direct", NoFilter)
                            objects_2 == WP(kg, "objects", Last(slots[2]), ent_comb[2],
                                            relation_2, NONE, "direct", NoFilter)
                            objects_intersect ==
                                SortSet(Range(objects_1) \cap Range(objects_2))
                            a4 == Note(Note(a3, "objects", ent_comb[1], relation_1),
                                       "objects", ent_comb[2], relation_2)
                        IN  IF Len(objects_intersect) > 0
                            THEN Return([a4 EXCEPT !.out =
                                    << << relation_1, relation_2, objects_intersect[1] >> >>])
                            ELSE a4,
                        a2, ButLast(slots[2])),
                    a1, ButLast(slots[1])),
                 [a0 EXCEPT !.out = <<>>], ent_combs)
    IN  IF Len(slots) = 1 THEN Done(one)
        ELSE IF Len(slots) = 2 THEN Done(two)
        ELSE [a0 EXCEPT !.out = <<>>]

two_hop_two_ent(kg, a0, ent_combs, rev) ==
    Done(ForEach(LAMBDA a1, ent_comb :
        LET ex_rels == ListSet(
                WP(kg, "rels", "forw", ent_comb[2], NONE, NONE, "direct", NoFilter)
                  \o WP(kg, "rels", "backw", ent_comb[2], NONE, NONE, "direct", NoFilter),
                rev)
            top_rels == TopRels(rank_rels(ex_rels))
        IN  ForEach(LAMBDA a2, rel :
                ForEach(LAMBDA a3, object_1 :
                    LET objects_2 == WP(kg, "rels", "forw", object_1, NONE, ent_comb[1],
                                        "direct", NoFilter)
                        a4 == Note(a3, "rels", object_1, NONE)
                    IN  IF Len(objects_2) > 0
                        THEN Return(EmitAll(a4, [i \in 1..Len(objects_2) |->
                                IF objects_2[i] # "P31"
                                THEN << rel, objects_2[i], object_1 >>
                                ELSE << rel, object_1 >>]))
                        ELSE a4,
                    Note(a2, "objects", ent_comb[2], rel), BothWays(kg, ent_comb[2], rel)),
                Ranked(Note(a1, "rels", ent_comb[2], NONE), top_rels, rels_to_leave),
                top_rels),
        [a0 EXCEPT !.out = <<>>], ent_combs))

two_hop_cqwn(kg, a0, entities_list, rels, num) ==
    Done(ForEach(LAMBDA a1, entity :
        ForEach(LAMBDA a2, rel :
            LET answers == WP(kg, "objects", "forw", entity, rel, NONE, "direct", NoFilter)
            IN  ForEach(LAMBDA a3, ans :
                    LET second_rels == WP(kg, "rels", "forw", ans, NONE, NONE, "direct", num)
                        a4 == Note(a3, "rels", ans, NONE)
                    IN  IF Len(second_rels) > 0
                        THEN Return(EmitAll(a4, [i \in 1..Len(second_rels) |->
                                << rel, second_rels[i], ans >>]))
                        ELSE a4,
                    Note(a2, "objects", entity, rel), answers),
            a1, rels),
        [a0 EXCEPT !.out = <<>>], entities_list))

\* lines 564-571: forward and backward vocabulary of the leading entities
TwoHopVocabulary(kg, a0, entities_list) ==
    ForEach(LAMBDA a1, entity :
        [Note(a1, "rels", entity, NONE) EXCEPT !.tmp =
            @ \o WP(kg, "rels", "forw", entity, NONE, NONE, "direct", NoFilter)
              \o WP(kg, "rels", "backw", entity, NONE, NONE, "direct", NoFilter)],
        [a0 EXCEPT !.tmp = <<>>], Take(entities_list, entities_to_leave))

\* lines 583-595: the second-hop vocabulary
SecondHopVocabulary(kg, a0, entities_list, top_rels) ==
    ForEach(LAMBDA a1, entity :
        ForEach(LAMBDA a2, rel :
            LET objects_mid == BothWays(kg, entity, rel)
                a3 == Note(a2, "objects", entity, rel)
            IN  IF rel # "P31"
                THEN IF Len(objects_mid) < MidCap
                     THEN ForEach(LAMBDA a4, obj :
                            [Note(a4, "rels", obj, NONE) EXCEPT !.tmp =
                                @ \o WP(kg, "rels", "forw", obj, NONE, NONE, "direct", NoFilter)],
                            a3, objects_mid)
                     ELSE a3
                ELSE a2,
            a1, Take(top_rels, rels_to_leave_2hop)),
        [a0 EXCEPT !.tmp = <<>>], Take(entities_list, entities_to_leave))

\* lines 598-604: one candidate per leading relation
FirstHopPass(kg, a0, entities_list, top_rels) ==
    ForEach(LAMBDA a1, entity :
        ForEach(LAMBDA a2, rel :
            LET objects == BothWays(kg, entity, rel)
                a3 == Note(a2, "objects", entity, rel)
            IN  IF rel # "P31"
                THEN IF Len(objects) > 0 THEN Emit(a3, << rel, objects[1] >>) ELSE a3
                ELSE a2,
            a1, Take(top_rels, rels_to_leave_2hop)),
        a0, Take(entities_list, entities_to_leave))

\* lines 606-617: one candidate per pair of relations
SecondHopPass(kg, a0, entities_list, top_rels, top_rels_2) ==
    ForEach(LAMBDA a1, entity :
        ForEach(LAMBDA a2, rel_1 :
            LET objects_mid == BothWays(kg, entity, rel_1)
                a3 == Note(a2, "objects", entity, rel_1)
            IN  IF rel_1 # "P31"
                THEN IF Len(objects_mid) > 0 /\ Len(objects_mid) < MidCap
                     THEN ForEach(LAMBDA a4, obj :
                            ForEach(LAMBDA a5, rel_2 :
                                LET objects == WP(kg, "objects", "forw", obj, rel_2, NONE,
                                                  "direct", NoFilter)
                                    a6 == Note(a5, "objects", obj, rel_2)
                                IN  IF rel_2 # "P31" /\ rel_1 # rel_2
                                    THEN IF Len(objects) > 0
                                         THEN Emit(a6, << rel_1, rel_2, objects[1] >>)
                                         ELSE a6
                                    ELSE a5,
                                a4, Take(top_rels_2, rels_to_leave_2hop)),
                            a3, objects_mid)
                     ELSE a3
                ELSE a2,
            a1, Take(top_rels, rels_to_leave_2hop)),
        a0, Take(entities_list, entities_to_leave))

two_hop_one_ent(kg, a0, entities_list, num, rev) ==
    LET leading == Take(entities_list, entities_to_leave)
    IN  Bind(TwoHopVocabulary(kg, a0, entities_list), LAMBDA a1 :
        Bind(TopRels(rank_rels(ListSet(a1.tmp, rev))), LAMBDA top_rels :
            IF num = "year"
            THEN two_hop_cqwn(kg, Ranked(Done(a1), top_rels, rels_to_leave), leading,
                              top_rels, Take(Year, 3))
            ELSE IF num = "number"
            THEN two_hop_cqwn(kg, Ranked(Done(a1), top_rels, rels_to_leave), leading,
                              top_rels, Number)
            ELSE
            Bind(SecondHopVocabulary(kg, Ranked(Done(a1), top_rels, rels_to_leave_2hop),
                                     entities_list, top_rels), LAMBDA a2 :
            Bind(TopRels(rank_rels(ListSet(a2.tmp, rev))), LAMBDA top_rels_2 :
            Bind(FirstHopPass(kg, Ranked([Done(a2) EXCEPT !.out = <<>>], top_rels_2,
                                         rels_to_leave_2hop), entities_list, top_rels),
            LAMBDA a3 :
                Done(SecondHopPass(kg, a3, entities_list, top_rels, top_rels_2)))))))

two_hop_solver(kg, a0, entity_ids, rels_from_template, num, rev) ==
    LET given == rels_from_template.given
        pair12 == make_entity_combs(<< entity_ids[1], entity_ids[2] >>)
        pair13 == make_entity_combs(<< entity_ids[1], entity_ids[3] >>)
    IN  IF Len(entity_ids) = 1
        THEN IF given THEN from_template_one_ent(kg, a0, entity_ids, rels_from_template)
             ELSE two_hop_one_ent(kg, a0, entity_ids[1], num, rev)
        ELSE IF Len(entity_ids) >= 2
        THEN IF given THEN from_template_two_ent(kg, a0, pair12, rels_from_template)
             ELSE Bind(two_hop_two_ent(kg, a0, pair12, rev), LAMBDA first :
                IF Len(first.out) > 0 \/ first.err # "none" THEN first
                ELSE IF Len(entity_ids) = 3 THEN two_hop_two_ent(kg, first, pair13, rev)
                ELSE two_hop_one_ent(kg, first, entity_ids[2], num, rev))
        ELSE [a0 EXCEPT !.out = <<>>]

\* ------------------------------------------------------------ the fixtures
\* superlative graphs: A and B are instances of E1 and point at E2 by P2
MaxMinBase == {D("A", "P31", "E1"), D("B", "P31", "E1"),
               D("A", "P2", "E2"), D("B", "P2", "E2")}
MaxMinKGs ==
    {MaxMinBase \cup va \cup vb :
        va \in {{}, {D("A", "P1", "L2")}, {D("A", "P1", "Lnq")},
                {D("A", "P1", "Lnan")}, {D("A", "P3", "L2")}},
        vb \in {{}, {D("B", "P1", "L1")}, {D("B", "P1", "L12")}}}

\* neighbourhoods of E1 and E2 for counting and one-entity search
CountKGs ==
    SUBSET {D("E1", "P1", "A"), D("E1", "P1", "B"), D("C", "P2", "E1")}

\* reified statements: E1 -P1-> statement node S1, with qualifiers
QualKGs ==
    { {D("E1", "P1", "S1"), St("S1", "P1", "T"), Q("S1", "P2", "Y2001")},
      {D("E1", "P1", "S1"), St("S1", "P1", "T"), Q("S1", "P2", "Y2005"),
       D("S1", "P3", "Y2005")},
      {D("E1", "P1", "S1"), St("S1", "P1", "Y2001"), Q("S1", "P2", "T")},
      {D("E1", "P1", "S1"), St("S1", "P1", "E2"), Q("S1", "P2", "T")},
      {D("E1", "P1", "S1"), St("S1", "P1", "T"), Q("S1", "P3", "E2")},
      {D("E1", "P1", "S1"), St("S1", "P1", "T"), Q("S1", "P2", "N5")},
      {D("E1", "P2", "A"), D("E1", "P1", "A"), D("E1", "P3", "S1"),
       St("S1", "P3", "T"), Q("S1", "P2", "Y2001")},
      {D("E1", "P1", "S1"), St("E1", "P1", "S1"), Q("S1", "P2", "Y2001")} }

\* two-hop neighbourhoods
TwoHopKGs ==
    { {D("E1", "P1", "A"), D("A", "P2", "B")},
      {D("E2", "P1", "A"), D("A", "P3", "E1"), D("A", "P31", "E1")},
      {D("E2", "P1", "A"), D("E2", "P1", "B"), D("A", "P3", "E1"), D("B", "P3", "E1")},
      {D("E3", "P2", "C"), D("C", "P1", "E1")},
      {D("E2", "P1", "A"), D("A", "P2", "B")},
      {D("E1", "P1", "A"), D("A", "P3", "Y2005")},
      {D("E2", "P2", "C"), D("E2", "P1", "C"), D("E2", "P3", "A"), D("A", "P1", "E1")},
      {D("E1b", "P1", "A"), D("A", "P2", "B")} }

EmptyKG == {}
KGs == MaxMinKGs \cup CountKGs \cup QualKGs \cup TwoHopKGs

\* -------------------------------------------------------------- questions
Digits == {"0", "1", "2", "3", "4", "5", "6", "7"}
\* template_type: a digit string
TemplateTypes == {<< d >> : d \in Digits}

\* int(s) of a digit string
IntOf(s) == FoldLeft(LAMBDA v, c : 10 * v + DigitVal(c), 0, s)
\* s.isdigit()
IsDigit(s) == Len(s) > 0 /\ \A i \in 1..Len(s) : DigitVal(s[i]) >= 0

Mentions == << "m1", "m2", "m3" >>
OneSlot == Rels(<< << "P1", "forw" >> >>)
TwoSlots == Rels(<< << "P1", "forw" >>, << "P2", "forw" >> >>)

\* template_matcher(question): (entities, relations, query type)
NoMatch == [ents |-> <<>>, rels |-> Rels(<<>>), qtype |-> <<>>]
MatcherResults ==
    {NoMatch,
     [ents |-> Take(Mentions, 1), rels |-> OneSlot, qtype |-> << "5" >>],
     [ents |-> Take(Mentions, 2), rels |-> TwoSlots, qtype |-> << "6" >>]} \cup
    {[ents |-> Take(Mentions, n), rels |-> r, qtype |-> <<>>] :
        n \in 1..2, r \in {OneSlot, TwoSlots}}

\* one batch item with what the collaborators answer for it
Questions ==
    {[ttype |-> tt, match |-> m, ner |-> Take(Mentions, n), kg |-> g] :
        tt \in TemplateTypes, m \in MatcherResults, n \in 0..3, g \in KGs}

\* the items two workers resolve at the same time
ConcQuestions ==
    {[ttype |-> tt, match |-> NoMatch, ner |-> Take(Mentions, 2), kg |-> g] :
        tt \in TemplateTypes,
        g \in {MaxMinBase \cup {D("A", "P1", "L2"), D("E1", "P1", "A")}}}

get_entity_ids(entities) ==
    [i \in 1..Len(entities) |-> Take(Linker(entities[i]), LinkerCap)]

\* ---------------------------------------------------------------- the state
\* template_num: the engine's self.template_num, shared by every worker
\* w[t]: the frame of worker t inside __call__ and find_candidate_answers
\* mode: "seq" (one worker, a batch of any length) or "conc" (every worker
\*   with a batch of at most one question, all on one engine)
VARIABLES mode, template_num, w
vars == << mode, template_num, w >>

Workers == 1..NumWorkers
NullQ == [ttype |-> <<>>, match |-> NoMatch, ner |-> <<>>, kg |-> EmptyKG]

\* pc: idle, match, tmpl, fca, ner, append, raised, returned
\* pos: the next `if` of find_candidate_answers
\* caller: the call site of find_candidate_answers ("template" or "ner")
\* num, asc: what the extractors and asc_desc say of the question, fixed when
\*   first consulted;  mine: the template this question alone would have
\* calls, ranked: the wiki_parser calls and the relation lists of the current
\*   find_candidate_answers
\* log: the dispatches and solver runs of the current question
\* appended: the list the previous question added to candidate_outputs_batch
\* after_fallback: the previous question left a template_num that neither its
\*   template type nor its matcher declared (the 7 or 5 of a fallback)
Idle == [pc |-> "idle", q |-> NullQ, entity_ids |-> <<>>,
         rels_from_template |-> NoRels, candidate_outputs |-> <<>>,
         pos |-> 0, caller |-> "none", fault |-> "none", calls |-> {}, ranked |-> {},
         log |-> <<>>, num |-> "unset", asc |-> "unset", mine |-> -1,
         appended |-> <<>>, after_fallback |-> FALSE]

Init ==
    /\ mode = "seq"
    /\ template_num = -1
    /\ w = [t \in Workers |-> Idle]

InitConc ==
    /\ mode = "conc"
    /\ template_num = -1
    /\ w = [t \in Workers |-> Idle]

Set(t, frame) == w' = [w EXCEPT ![t] = frame]

\* variant: the identifier the previous question left is kept
LeftoverTemplate(template_type) ==
    IF template_num = -1 THEN IntOf(template_type) ELSE template_num

\* line 102: self.template_num = int(template_type)
StartTemplate(template_type) == IntOf(template_type)

\* lines 98-102: the next batch item; self.template_num = int(template_type)
Begin(t) ==
    /\ w[t].pc = "idle"
    /\ mode = "conc" \/ t = 1
    /\ \E q \in (IF mode = "conc" THEN ConcQuestions ELSE Questions) :
        /\ template_num' = StartTemplate(q.ttype)
        /\ Set(t, [Idle EXCEPT !.pc = "match", !.q = q, !.mine = IntOf(q.ttype),
                              !.after_fallback = w[t].after_fallback])
    /\ UNCHANGED mode

\* lines 110-112: the matcher's query type overrides a numeric template type
Match(t) ==
    /\ w[t].pc = "match"
    /\ LET qtype == w[t].q.match.qtype
       IN  /\ template_num' = IF IsDigit(qtype) THEN IntOf(qtype) ELSE template_num
           /\ Set(t, [w[t] EXCEPT !.pc = "tmpl",
                        !.mine = IF IsDigit(qtype) THEN IntOf(qtype) ELSE @])
    /\ UNCHANGED mode

\* the call of find_candidate_answers(question, entity_ids, rels)
Enter(t, src, mentions, rels, mine) ==
    [w[t] EXCEPT !.pc = "fca", !.pos = 1, !.caller = src,
                 !.entity_ids = get_entity_ids(mentions),
                 !.rels_from_template = rels, !.calls = {}, !.ranked = {},
                 !.mine = mine,
                 !.log = Append(@, [ev |-> "fca", src |-> src, tn |-> template_num',
                                    given |-> rels.given])]

\* lines 117-124: template-matched entities first
TemplatePath(t) ==
    /\ w[t].pc = "tmpl"
    /\ template_num' = template_num
    /\ IF Len(w[t].q.match.ents) > 0
       THEN Set(t, Enter(t, "template", w[t].q.match.ents, w[t].q.match.rels, w[t].mine))
       ELSE Set(t, [w[t] EXCEPT !.pc = "ner"])
    /\ UNCHANGED mode

\* variant: the identifier left by the first attempt is kept
KeptTemplate(template_type) == template_num

\* line 134: self.template_num = int(template_type[0])
BatchTemplate(template_type) == DigitVal(template_type[1])

\* lines 126-136: the NER entities when nothing was found
NerPath(t) ==
    /\ w[t].pc = "ner"
    /\ IF Len(w[t].candidate_outputs) = 0 /\ Len(w[t].q.ner) > 0
       THEN /\ template_num' = BatchTemplate(w[t].q.ttype)
            /\ Set(t, Enter(t, "ner", w[t].q.ner, NoRels, DigitVal(w[t].q.ttype[1])))
       ELSE /\ template_num' = template_num
            /\ Set(t, [w[t] EXCEPT !.pc = "append"])
    /\ UNCHANGED mode

\* the templates a question names: its template type and the matcher's type
Declared(q) ==
    {IntOf(q.ttype)} \cup
        (IF IsDigit(q.match.qtype) THEN {IntOf(q.match.qtype)} ELSE {})

\* line 137, and lines 138-144 once the batch is exhausted
AppendOutputs(t) ==
    /\ w[t].pc = "append"
    /\ Set(t, [Idle EXCEPT !.appended = w[t].candidate_outputs,
                          !.after_fallback = template_num \notin Declared(w[t].q),
                          !.pc = IF mode = "conc" THEN "returned" ELSE "idle"])
    /\ UNCHANGED << mode, template_num >>

Finish(t) ==
    /\ w[t].pc = "idle"
    /\ Set(t, [w[t] EXCEPT !.pc = "returned"])
    /\ UNCHANGED << mode, template_num >>

\* ------------------------------------------------ find_candidate_answers
\* the `if` of lines 159-182 that a template value selects
BlockOf(tn) ==
    CASE tn \in {0, 1} -> 1
      [] tn \in {2, 3} -> 2
      [] tn = 4        -> 3
      [] tn = 5        -> 4
      [] tn = 6        -> 5
      [] tn = 7        -> 6
      [] OTHER         -> 0

\* the worker reaches the `if` that self.template_num selects now
AtBlock(t, b) == w[t].pc = "fca" /\ w[t].pos <= b /\ BlockOf(template_num) = b

NumOf(t) == IF w[t].num = "unset" THEN {"none", "year", "number"} ELSE {w[t].num}
AscOf(t) == IF w[t].asc = "unset" THEN {"asc", "desc"} ELSE {w[t].asc}

\* frame f after a solver gave r: its candidates kept, or its fault raised
Solved(f, r, name, given, tn) ==
    IF r.err # "none"
    THEN [f EXCEPT !.pc = "raised", !.fault = r.err, !.calls = @ \cup r.calls,
                   !.ranked = @ \cup r.ranked,
                   !.log = Append(@, [ev |-> "raise", name |-> name,
                                      tn |-> tn, mine |-> f.mine])]
    ELSE [f EXCEPT !.candidate_outputs = r.out, !.calls = @ \cup r.calls,
                   !.ranked = @ \cup r.ranked,
                   !.log = Append(@, [ev |-> "solver", name |-> name,
                                      tn |-> tn, mine |-> f.mine,
                                      given |-> given, out |-> r.out])]

\* variants of the emptiness test: the fallback never taken, always taken
NeverEmpty(r) == FALSE
AlwaysEmpty(r) == r.err = "none"

\* `if not candidate_outputs` (lines 161, 166, 177)
Empty(r) == r.err = "none" /\ Len(r.out) = 0

\* lines 159-162
Block01(t) ==
    /\ AtBlock(t, 1)
    /\ \E nm \in NumOf(t), rev \in BOOLEAN :
        \E r \in {complex_question_with_number_solver(w[t].q.kg, Fresh, w[t].entity_ids,
                     NoRels, nm, template_num, rev)} :
            /\ template_num' = IF Empty(r) THEN 7 ELSE template_num
            /\ Set(t, [Solved(w[t], r, "number", FALSE, template_num) EXCEPT
                         !.pos = 2, !.num = nm, !.mine = IF Empty(r) THEN 7 ELSE @])
    /\ UNCHANGED mode

\* lines 164-167
Block23(t) ==
    /\ AtBlock(t, 2)
    /\ \E r \in {complex_question_with_qualifier_solver(w[t].q.kg, Fresh, w[t].entity_ids,
                    NoRels, template_num, FALSE)} :
           /\ template_num' = IF Empty(r) THEN 7 ELSE template_num
           /\ Set(t, [Solved(w[t], r, "qualifier", FALSE, template_num) EXCEPT
                        !.pos = 3, !.mine = IF Empty(r) THEN 7 ELSE @])
    /\ UNCHANGED mode

\* lines 169-170
Block4(t) ==
    /\ AtBlock(t, 3)
    /\ \E r \in {questions_with_count_solver(w[t].q.kg, Fresh, w[t].entity_ids,
                    NoRels, FALSE)} :
           Set(t, [Solved(w[t], r, "count", FALSE, template_num) EXCEPT !.pos = 4])
    /\ UNCHANGED << mode, template_num >>

\* lines 172-173
Block5(t) ==
    /\ AtBlock(t, 4)
    /\ \E a \in AscOf(t) :
        \E r \in {maxmin_one_entity_solver(w[t].q.kg, Fresh,
                     Take(w[t].entity_ids[1], entities_to_leave),
                     w[t].rels_from_template, a = "asc")} :
            Set(t, [Solved(w[t], r, "maxmin_one", w[t].rels_from_template.given,
                          template_num) EXCEPT
                      !.pos = 5, !.asc = a])
    /\ UNCHANGED << mode, template_num >>

\* lines 175-179
Block6(t) ==
    /\ AtBlock(t, 5)
    /\ \E a \in AscOf(t) :
        \E r6 \in {maxmin_two_entities_solver(w[t].q.kg, Fresh, w[t].entity_ids,
                      w[t].rels_from_template, a = "asc", FALSE)} :
        \E f6 \in {Solved(w[t], r6, "maxmin_two", w[t].rels_from_template.given,
                           template_num)} :
            /\ template_num' = IF Empty(r6) THEN 5 ELSE template_num
            /\ IF Empty(r6)
               THEN \E r5 \in {maxmin_one_entity_solver(w[t].q.kg, Fresh,
                                   Take(w[t].entity_ids[1], entities_to_leave),
                                   NoRels, a = "asc")} :
                        Set(t, [Solved([f6 EXCEPT !.mine = 5], r5, "maxmin_one", FALSE, 5)
                                  EXCEPT !.pos = 6, !.asc = a])
               ELSE Set(t, [f6 EXCEPT !.pos = 6, !.asc = a])
    /\ UNCHANGED mode

\* lines 181-182
Block7(t) ==
    /\ AtBlock(t, 6)
    /\ \E nm \in NumOf(t) :
        \E r \in {two_hop_solver(w[t].q.kg, Fresh, w[t].entity_ids,
                     w[t].rels_from_template, nm, FALSE)} :
            Set(t, [Solved(w[t], r, "two_hop", w[t].rels_from_template.given,
                          template_num) EXCEPT
                      !.pos = 7, !.num = nm])
    /\ UNCHANGED << mode, template_num >>

\* lines 184-186: no later `if` matches; back to the caller in __call__
FcaReturn(t) ==
    /\ w[t].pc = "fca"
    /\ BlockOf(template_num) < w[t].pos
    /\ Set(t, [w[t] EXCEPT !.pc = IF w[t].caller = "template" THEN "ner" ELSE "append",
                 !.log = Append(@, [ev |-> "ret", src |-> w[t].caller,
                                    tn |-> template_num,
                                    out |-> w[t].candidate_outputs])])
    /\ UNCHANGED << mode, template_num >>

Next ==
    \E t \in Workers :
        \/ Begin(t) \/ Match(t) \/ TemplatePath(t) \/ NerPath(t)
        \/ Block01(t) \/ Block23(t) \/ Block4(t) \/ Block5(t) \/ Block6(t) \/ Block7(t)
        \/ FcaReturn(t) \/ AppendOutputs(t) \/ Finish(t)

\* one worker resolving a batch
Spec == Init /\ [][Next]_vars
\* two workers on one engine instance
SpecConc == InitConc /\ [][Next]_vars

\* -------------------------------------------------------------- properties
\* the events of worker t's current question
Log(t) == w[t].log
IsSolver(e, names) == e.ev = "solver" /\ e.name \in names
IsReturn(e, out) == e.ev = "ret" /\ e.out = out
\* event i belongs to the find_candidate_answers call now in progress or last made
InLastCall(t, i) == \A j \in i..Len(Log(t)) : Log(t)[j].ev # "fca"

\* C1: in find_candidate_answers, an empty result of the numeric-qualifier or
\* qualifier-join strategy (templates 0-3) sets the active template to 7, the
\* two-hop solver runs next in the same call and its result is what the call
\* returns; a non-empty result is returned as it is, with no two-hop run.
C1_FallbackToTwoHop ==
    \A t \in Workers : \A i \in 1..Len(Log(t)) :
        LET log == Log(t)
            e == log[i]
        IN  IsSolver(e, {"number", "qualifier"}) =>
                /\ e.tn \in 0..3
                /\ IF e.out = <<>>
                   THEN IF i = Len(log)
                        THEN w[t].pc = "fca" /\ template_num = 7 /\ w[t].pos <= 6
                        ELSE /\ IsSolver(log[i + 1], {"two_hop"})
                             /\ log[i + 1].tn = 7
                             /\ i + 2 <= Len(log) => IsReturn(log[i + 2], log[i + 1].out)
                             /\ i + 2 > Len(log) =>
                                    /\ w[t].pc = "fca"
                                    /\ w[t].candidate_outputs = log[i + 1].out
                   ELSE IF i = Len(log)
                        THEN /\ w[t].pc = "fca" /\ template_num = e.tn
                             /\ w[t].candidate_outputs = e.out
                        ELSE IsReturn(log[i + 1], e.out)

\* a call where the first strategy found nothing and the two-hop solver did
C1_Witness ==
    \E t \in Workers : \E i \in 1..Len(Log(t)) :
        /\ i + 2 <= Len(Log(t))
        /\ IsSolver(Log(t)[i], {"number", "qualifier"}) /\ Log(t)[i].out = <<>>
        /\ IsSolver(Log(t)[i + 1], {"two_hop"}) /\ Log(t)[i + 1].out # <<>>
        /\ IsReturn(Log(t)[i + 2], Log(t)[i + 1].out)

\* C2: with active template 6, an empty result of the two-entity max/min solver
\* is followed by exactly one run of the one-entity solver as template 5 on the
\* first mention's id list cut to entities_to_leave, and that result is
\* returned with no further dispatch; a non-empty result is returned as it is.
C2_RetryAsOneEntity ==
    \A t \in Workers : \A i \in 1..Len(Log(t)) :
        LET log == Log(t)
            e == log[i]
            f == w[t]
        IN  IsSolver(e, {"maxmin_two"}) =>
                /\ e.tn = 6
                /\ IF e.out = <<>>
                   THEN /\ i < Len(log)
                        /\ log[i + 1].ev \in {"solver", "raise"}
                        /\ log[i + 1].name = "maxmin_one"
                        /\ log[i + 1].tn = 5
                        /\ i + 1 = Len(log) => f.pc \in {"fca", "raised"}
                        /\ (i + 1 = Len(log) /\ f.pc = "fca") =>
                               /\ template_num = 5
                               /\ f.pos > 4
                        /\ (log[i + 1].ev = "solver" /\ InLastCall(t, i)) =>
                               log[i + 1].out =
                                   maxmin_one_entity_solver(f.q.kg, Fresh,
                                       Take(f.entity_ids[1], entities_to_leave),
                                       NoRels, f.asc = "asc").out
                        /\ i + 2 <= Len(log) => IsReturn(log[i + 2], log[i + 1].out)
                   ELSE IF i = Len(log)
                        THEN f.pc = "fca" /\ template_num = 6 /\ f.candidate_outputs = e.out
                        ELSE IsReturn(log[i + 1], e.out)

\* a two-mention question whose pair search found nothing and whose retry on
\* the first mention found a candidate, returned
C2_Witness ==
    \E t \in Workers : \E i \in 1..Len(Log(t)) :
        /\ i + 2 <= Len(Log(t))
        /\ Len(w[t].entity_ids) >= 2
        /\ IsSolver(Log(t)[i], {"maxmin_two"}) /\ Log(t)[i].out = <<>>
        /\ IsSolver(Log(t)[i + 1], {"maxmin_one"}) /\ Log(t)[i + 1].out # <<>>
        /\ IsReturn(Log(t)[i + 2], Log(t)[i + 1].out)

\* the template the first attempt starts with: the matcher's type if numeric
FirstTemplate(q) ==
    IF IsDigit(q.match.qtype) THEN IntOf(q.match.qtype) ELSE IntOf(q.ttype)
Calls(t, src) == {i \in 1..Len(Log(t)) : Log(t)[i].ev = "fca" /\ Log(t)[i].src = src}
FirstAttemptEmpty(t) ==
    \E j \in 1..Len(Log(t)) :
        Log(t)[j].ev = "ret" /\ Log(t)[j].src = "template" /\ Log(t)[j].out = <<>>

\* C3: in __call__, template-matched entities are tried first with the
\* template's strategy and relations; the NER entities are tried exactly when
\* that attempt gave nothing (or there were no template entities) and NER
\* entities exist; the NER attempt runs under the batch-level template type
\* and without template relations.
C3_EntitySourcePriority ==
    \A t \in Workers :
        LET f == w[t]
            log == Log(t)
        IN  /\ \A i \in Calls(t, "template") :
                   /\ i = 1
                   /\ Len(f.q.match.ents) > 0
                   /\ log[i].tn = FirstTemplate(f.q)
                   /\ log[i].given
            /\ (f.pc \in {"fca", "ner", "append", "raised"} /\ Len(f.q.match.ents) > 0)
                   => Calls(t, "template") = {1}
            /\ \A i \in Calls(t, "ner") :
                   /\ log[i].tn = IntOf(f.q.ttype)
                   /\ ~log[i].given
                   /\ Len(f.q.ner) > 0
                   /\ Len(f.q.match.ents) = 0 \/ FirstAttemptEmpty(t)
                   /\ Cardinality(Calls(t, "ner")) = 1
            /\ f.pc = "append" =>
                   (Calls(t, "ner") # {} <=>
                        /\ Len(f.q.ner) > 0
                        /\ Len(f.q.match.ents) = 0 \/ FirstAttemptEmpty(t))

\* the first attempt ran under the matcher's template, fell back to another
\* and found nothing; the NER attempt ran under a third, the batch-level one
C3_Witness ==
    \E t \in Workers :
        /\ w[t].pc = "append"
        /\ Calls(t, "template") # {} /\ Calls(t, "ner") # {}
        /\ \E j \in 1..Len(Log(t)) :
               /\ Log(t)[j].ev = "ret" /\ Log(t)[j].src = "template"
               /\ Log(t)[j].out = <<>>
               /\ Log(t)[j].tn # FirstTemplate(w[t].q)
               /\ Log(t)[j].tn # IntOf(w[t].q.ttype)
        /\ FirstTemplate(w[t].q) # IntOf(w[t].q.ttype)

\* C4: when two questions are resolved concurrently on one engine, every
\* strategy a resolution runs is selected by the template identifier of its
\* own question, under every interleaving.
C4_NoTemplateLeak ==
    \A t \in Workers : \A i \in 1..Len(Log(t)) :
        Log(t)[i].ev \in {"solver", "raise"} => Log(t)[i].tn = Log(t)[i].mine

\* the candidates a max/min solver chose from, for the solver event e of t
MaxminFound(t, e) ==
    IF e.name = "maxmin_one"
    THEN MaxminOneCandidates(w[t].q.kg, Fresh,
             Take(w[t].entity_ids[1], entities_to_leave),
             IF e.given THEN w[t].rels_from_template ELSE NoRels).out
    ELSE MaxminTwoCandidates(w[t].q.kg, Fresh, w[t].entity_ids,
             w[t].rels_from_template, FALSE).out
\* the position of the parsed value in such a candidate
ValueAt(e) == IF e.name = "maxmin_one" THEN 3 ELSE 4
\* the last event of t is a max/min solver run of the call in progress
MaxminJustRan(t) ==
    /\ w[t].pc = "fca"
    /\ Len(Log(t)) > 0
    /\ IsSolver(Log(t)[Len(Log(t))], {"maxmin_one", "maxmin_two"})

\* C5: the output of either max/min solver is the candidate of maximum parsed
\* value for a question that is not ascending and of minimum parsed value for
\* an ascending one, among the candidates found for the selected relation(s).
C5_TrueExtremum ==
    \A t \in Workers :
        MaxminJustRan(t) =>
            LET e == Log(t)[Len(Log(t))]
                found == MaxminFound(t, e)
                k == ValueAt(e)
            IN  e.out # <<>> =>
                    \E c \in Range(found) :
                        /\ SubSeq(c, 1, k - 1) = e.out[1]
                        /\ \A d \in Range(found) :
                               IF w[t].asc = "asc" THEN c[k] <= d[k] ELSE c[k] >= d[k]

\* C6: both max/min solvers return a list of length 0 or 1, and so does every
\* find_candidate_answers call that ends with active template 5.
C6_AtMostOne ==
    \A t \in Workers : \A i \in 1..Len(Log(t)) :
        LET e == Log(t)[i]
        IN  /\ IsSolver(e, {"maxmin_one", "maxmin_two"}) => Len(e.out) <= 1
            /\ (e.ev = "ret" /\ e.tn = 5) => Len(e.out) <= 1

\* a max/min solver that found two candidates and returned one of them, and
\* the call returned it under template 5
C6_Witness ==
    \E t \in Workers :
        LET n == Len(Log(t))
        IN  /\ n >= 2
            /\ IsSolver(Log(t)[n - 1], {"maxmin_one"})
            /\ InLastCall(t, n - 1)
            /\ Len(MaxminFound(t, Log(t)[n - 1])) >= 2
            /\ Len(Log(t)[n - 1].out) = 1
            /\ Log(t)[n].ev = "ret" /\ Log(t)[n].tn = 5 /\ Len(Log(t)[n].out) = 1

\* one (relation, count) per combination with a non-empty Direct object set,
\* in the order entity list, entity, relation, direction
ExactCounts(kg, entity_ids, rels) ==
    Concat([i \in 1..Len(entity_ids) |->
        LET ents == Take(entity_ids[i], entities_to_leave)
        IN  Concat([j \in 1..Len(ents) |->
                Concat([k \in 1..Len(rels) |->
                    Concat([d \in 1..2 |->
                        LET os == WP(kg, "objects", << "forw", "backw" >>[d], ents[j],
                                     rels[k], NONE, "direct", NoFilter)
                        IN  IF Len(os) > 0 THEN << << rels[k], Str(Len(os)) >> >>
                            ELSE <<>>])])])])
Occurrences(xs, x) == Cardinality({i \in 1..Len(xs) : xs[i] = x})
SameTuples(xs, ys) ==
    /\ Len(xs) = Len(ys)
    /\ \A x \in Range(xs) \cup Range(ys) : Occurrences(xs, x) = Occurrences(ys, x)

\* C7: the count solver emits exactly one (relation, count) for each (entity,
\* relation, direction) whose Direct object set is non-empty, none for an
\* empty one, and each count is the cardinality of that one set.
C7_ExactCounts ==
    \A t \in Workers :
        LET n == Len(Log(t))
        IN  (w[t].pc = "fca" /\ n > 0 /\ IsSolver(Log(t)[n], {"count"})) =>
                SameTuples(Log(t)[n].out,
                    ExactCounts(w[t].q.kg, w[t].entity_ids,
                        Take(CountVocabulary(w[t].q.kg, Fresh, w[t].entity_ids, FALSE).tmp,
                             rels_to_leave)))

\* C8: a decimal-filtered object that is not a well-formed numeric literal
\* raises no fault in either max/min search.
C8_MalformedSkipped ==
    \A t \in Workers :
        ~(w[t].pc = "raised" /\ w[t].fault \in {"AttributeError", "ValueError"})

\* C9: when every KG access returns an empty sequence, the question's
\* candidate list is empty and no fault is raised, for every template, every
\* number of mentions and with or without template relations.
C9_EmptyGraphEmptyAnswer ==
    \A t \in Workers :
        (w[t].pc # "idle" /\ w[t].q.kg = EmptyKG) =>
            /\ w[t].pc # "raised"
            /\ w[t].candidate_outputs = <<>>

\* the relations a call may pass to wiki_parser: the capped head of every
\* list obtained, and the literals of the code
Allowed(f) ==
    {NONE, "P31"} \cup UNION {Range(Take(r.rels, r.cap)) : r \in f.ranked}

\* C10: where the relations come from the ranker, only the first rels_to_leave
\* (rels_to_leave_2hop in the two-hop passes) of a ranking, or the full
\* vocabulary of the template-0/1 retry, are passed to wiki_parser.
C10_RelationsTruncated ==
    \A t \in Workers :
        ~w[t].rels_from_template.given =>
            \A c \in w[t].calls : c[3] \in Allowed(w[t])

\* the ids the linker gave for the mentions of the current call, and the
\* leading entities_to_leave of each mention
Linked(f) == UNION {Range(f.entity_ids[i]) : i \in 1..Len(f.entity_ids)}
Leading(f) ==
    UNION {Range(Take(f.entity_ids[i], entities_to_leave)) : i \in 1..Len(f.entity_ids)}

\* C11: every wiki_parser call whose subject is a linked candidate entity uses
\* one of the first entities_to_leave ids the linker returned for its mention.
C11_EntitiesTruncated ==
    \A t \in Workers :
        \A c \in w[t].calls : c[2] \in Linked(w[t]) => c[2] \in Leading(w[t])

\* the (relation, qualifier relation, answer) combinations of graph kg for the
\* entities ents and the relations rels: relation e1 leads from an entity to a
\* node, qualifier e2 of that node matches num, and e3 is a Statement-typed
\* edge of the same relation, leaving the node (from = "node") or the entity
Combos(kg, ents, rels, num, from) ==
    {<< c[1].r, c[2].r, c[3].o >> : c \in
        {c \in kg \X kg \X kg :
            /\ c[1].s \in ents /\ c[1].r \in rels
            /\ c[2].s = c[1].o /\ c[2].k = "qualifier"
            /\ Contains(LitText(c[2].o), num)
            /\ c[3].r = c[1].r /\ c[3].k = "statement"
            /\ c[3].s = IF from = "node" THEN c[1].o ELSE c[1].s}}

\* what the template-0 search owes for frame f: the combinations of the leading
\* relations of the ranking, or of the whole vocabulary when those give none
Vocabulary(f) ==
    {e.r : e \in {e \in f.q.kg : e.k = "direct"
                      /\ e.s \in Range(Take(f.entity_ids[1], entities_to_leave))}}
Owed(f, from) ==
    LET ents == Range(Take(f.entity_ids[1], entities_to_leave))
        top == Range(Take(TopRels(rank_rels(SortSet(Vocabulary(f)))), rels_to_leave))
        value == IF f.num = "year" THEN Year ELSE Number
        first == Combos(f.q.kg, ents, top, value, from)
    IN  IF f.num = "none" THEN {}
        ELSE IF first # {} THEN first
        ELSE Combos(f.q.kg, ents, Vocabulary(f), value, from)

\* the runs of the numeric-qualifier solver under template 0 in the current call
NumberRuns(t) ==
    {i \in 1..Len(Log(t)) : /\ IsSolver(Log(t)[i], {"number"})
                            /\ Log(t)[i].tn = 0
                            /\ InLastCall(t, i)}

\* C12 as stated: the template-0 solver emits (relation, qualifier relation,
\* answer) for every matching qualifier relation of the statement node combined
\* with every Statement-typed object of the same relation taken from the entity;
\* for E1 -P1-> S1, S1 -P2-> 2001 and S1 a Statement-typed object of P1 from E1
\* the output is [(P1, P2, S1)].
C12_AnswersFromEntity ==
    \A t \in Workers :
        \A i \in NumberRuns(t) : Range(Log(t)[i].out) = Owed(w[t], "entity")

\* C12: the template-0 solver emits (relation, qualifier relation, answer) for
\* every qualifier relation of the statement node that matches the extracted
\* year or number combined with every Statement-typed object of the same
\* relation taken from the statement node.
C12_AnswersFromStatementNode ==
    \A t \in Workers :
        \A i \in NumberRuns(t) : Range(Log(t)[i].out) = Owed(w[t], "node")

\* a template-0 run that emitted the value of the statement node
C12_Witness ==
    \E t \in Workers :
        \E i \in NumberRuns(t) :
            /\ w[t].num = "year"
            /\ Log(t)[i].out = << << "P1", "P2", "T" >> >>

\* the arities of the tuples of a candidate list
Arities(out) == {Len(out[i]) : i \in 1..Len(out)}

\* C13: every candidate is a tuple of 2 to 4 elements and the list one strategy
\* returns for one question holds tuples of one arity only; the two-hop
\* strategy never mixes (relation, object) with (relation, relation, object).
C13_UniformArity ==
    \A t \in Workers :
        \A i \in 1..Len(Log(t)) :
            Log(t)[i].ev = "solver" =>
                /\ Arities(Log(t)[i].out) \subseteq 2..4
                /\ Cardinality(Arities(Log(t)[i].out)) <= 1

\* the objects that relation rel links to entity e2 (either way) and that are
\* directly related to entity e1
Joining(kg, e1, e2, rel) ==
    {o \in {e.o : e \in kg} \cup {e.s : e \in kg} :
        /\ \E e \in kg : /\ e.k = "direct" /\ e.r = rel
                         /\ (e.s = e2 /\ e.o = o) \/ (e.o = e2 /\ e.s = o)
        /\ \E e \in kg : e.k = "direct" /\ e.s = o /\ e.o = e1}

\* the relations of entity e2, best first, that have a joining object
Winners(kg, e1, e2) ==
    SelectSeq(RankOrder, LAMBDA r :
        /\ \E e \in kg : e.k = "direct" /\ e.r = r /\ (e.s = e2 \/ e.o = e2)
        /\ Joining(kg, e1, e2, r) # {})

\* the two-hop runs of the current call on two mentions without template relations
PairRuns(t) ==
    {i \in 1..Len(Log(t)) : /\ IsSolver(Log(t)[i], {"two_hop"})
                            /\ InLastCall(t, i)
                            /\ ~Log(t)[i].given
                            /\ Len(w[t].entity_ids) = 2}

\* C14: in the two-entity two-hop search without template relations, the result
\* holds a candidate for every joining object of the best-ranked relation that
\* has one, and no candidate of a later relation.
C14_AccumulateWithinWinner ==
    \A t \in Workers :
        \A i \in PairRuns(t) :
            LET e1 == w[t].entity_ids[1][1]
                e2 == w[t].entity_ids[2][1]
                win == Winners(w[t].q.kg, e1, e2)
                out == Log(t)[i].out
            IN  Len(win) > 0 =>
                    /\ \A o \in Joining(w[t].q.kg, e1, e2, win[1]) :
                           \E j \in 1..Len(out) : Last(out[j]) = o
                    /\ \A j \in 1..Len(out) : out[j][1] = win[1]

\* the two-hop runs of the current call on three mentions without template relations
TripleRuns(t) ==
    {i \in 1..Len(Log(t)) : /\ IsSolver(Log(t)[i], {"two_hop"})
                            /\ InLastCall(t, i)
                            /\ ~Log(t)[i].given
                            /\ Len(w[t].entity_ids) = 3}

\* the first non-empty of three candidate lists, or the last
FirstNonEmpty(a, b, c) == IF Len(a) > 0 THEN a ELSE IF Len(b) > 0 THEN b ELSE c

\* C15: with three mentions and no template relations the two-hop solver
\* returns the two-entity search on (entity 1, entity 2), or when that is empty
\* the two-entity search on (entity 1, entity 3), or when that is empty too the
\* one-entity search on the id list of entity 2.
C15_ThreeEntityFallback ==
    \A t \in Workers :
        \A i \in TripleRuns(t) :
            LET ids == w[t].entity_ids
                kg == w[t].q.kg
            IN  Log(t)[i].out = FirstNonEmpty(
                    two_hop_two_ent(kg, Fresh,
                        make_entity_combs(<< ids[1], ids[2] >>), FALSE).out,
                    two_hop_two_ent(kg, Fresh,
                        make_entity_combs(<< ids[1], ids[3] >>), FALSE).out,
                    two_hop_one_ent(kg, Fresh, ids[2], w[t].num, FALSE).out)

\* the relations the template matcher supplied, direction markers dropped
TemplateRels(f) ==
    UNION {Range(ButLast(f.rels_from_template.slots[i])) :
               i \in 1..Len(f.rels_from_template.slots)}

\* the strategy of templates 0-4 has just run as the first of a call that was
\* given template relations
FirstRunWithTemplateRels(t) ==
    LET n == Len(Log(t))
    IN  /\ n >= 2
        /\ Log(t)[n - 1].ev = "fca" /\ Log(t)[n - 1].given
        /\ Log(t)[n].ev \in {"solver", "raise"}
        /\ Log(t)[n].name \in {"number", "qualifier", "count"}

\* C16: when the matcher supplied relations, the strategy of templates 0-4
\* traverses only those relations from the linked entities and neither gathers
\* nor ranks a relation vocabulary.
C16_TemplateRelationsVerbatim ==
    \A t \in Workers :
        FirstRunWithTemplateRels(t) =>
            /\ w[t].ranked = {}
            /\ \A c \in w[t].calls :
                   c[2] \in Linked(w[t]) => c[1] # "rels" /\ c[3] \in TemplateRels(w[t])

\* the frame of a question that has just been taken from the batch
Started(q) == [Idle EXCEPT !.pc = "match", !.q = q, !.mine = IntOf(q.ttype)]

\* C17: in a sequential batch a question starts from its own template type
\* whatever the previous question left: when it is taken from the batch the
\* engine and the frame are those of the question processed alone, and the
\* template of its first dispatch is the one its template type and matcher
\* result name.
C17_NothingLeftBehind ==
    \A t \in Workers :
        LET f == w[t]
        IN  /\ f.pc = "match" =>
                   /\ template_num = IntOf(f.q.ttype)
                   /\ [f EXCEPT !.after_fallback = FALSE] = Started(f.q)
            /\ f.pc = "tmpl" => template_num = FirstTemplate(f.q)
            /\ Len(f.log) > 0 =>
                   f.log[1].tn = IF f.log[1].src = "template"
                                 THEN FirstTemplate(f.q) ELSE IntOf(f.q.ttype)

\* a question whose predecessor left the template of a fallback (7 or 5) has
\* been resolved under its own, different template and found candidates
C17_Witness ==
    \E t \in Workers :
        /\ w[t].after_fallback
        /\ w[t].pc = "append"
        /\ Len(w[t].log) > 0 /\ w[t].log[1].tn \notin {5, 7}
        /\ w[t].candidate_outputs # <<>>

====
